---- MODULE Spec2Model ----
\* Model of dsp_frontend/src/api/client.js: getBackendBaseUrl, apiGet, apiPost.
\*
\* JavaScript strings are sequences of one-character strings, so that trim(),
\* includes(), template concatenation, JSON.stringify and JSON.parse are
\* computed character by character.  JavaScript values are records of one
\* shape: t is the type tag, s the characters of a string, n the value of a
\* number, m the members of an object (a sequence of [k, v] records).
EXTENDS Integers, Sequences, FiniteSets, TLC

VARIABLES env, calls

vars == <<env, calls>>

----------------------------------------------------------------------------
\* Bounds of the model.

\* number of apiGet/apiPost calls that may be in flight together (SpecConc)
MaxCalls == 2
\* longest generated value of REACT_APP_BACKEND_URL
MaxEnvLen == 2

----------------------------------------------------------------------------
\* JavaScript values.

Undefined == [t |-> "undefined", s |-> <<>>, n |-> 0, m |-> <<>>]
JNull == [t |-> "null", s |-> <<>>, n |-> 0, m |-> <<>>]
JStr(s) == [t |-> "string", s |-> s, n |-> 0, m |-> <<>>]
JNum(n) == [t |-> "number", s |-> <<>>, n |-> n, m |-> <<>>]
JObj(m) == [t |-> "object", s |-> <<>>, n |-> 0, m |-> m]
Member(k, v) == [k |-> k, v |-> v]

\* ToBoolean, as used by `envUrl && ...`, `if (token)` and `... || ""`
Truthy(v) ==
    CASE v.t = "undefined" -> FALSE
      [] v.t = "null" -> FALSE
      [] v.t = "string" -> v.s # <<>>
      [] v.t = "number" -> v.n # 0
      [] v.t = "object" -> TRUE

\* `body ?? {}`: the right operand only for null and undefined
Nullish(v) == v.t \in {"undefined", "null"}

----------------------------------------------------------------------------
\* String literals of the source.

FALLBACK == <<"h","t","t","p",":","/","/","l","o","c","a","l","h","o","s","t",":","3","0","0","1">>
APPLICATION_JSON == <<"a","p","p","l","i","c","a","t","i","o","n","/","j","s","o","n">>
BEARER == <<"B","e","a","r","e","r"," ">>

----------------------------------------------------------------------------
\* String.prototype.trim and String.prototype.includes.

\* the white space trim() removes, as far as the strings of the model hold it
IsWhitespace(c) == c \in {" ", "\t", "\n", "\r"}

RECURSIVE TrimStart(_)
TrimStart(s) ==
    IF s # <<>> /\ IsWhitespace(Head(s)) THEN TrimStart(Tail(s)) ELSE s

RECURSIVE TrimEnd(_)
TrimEnd(s) ==
    IF s # <<>> /\ IsWhitespace(s[Len(s)])
    THEN TrimEnd(SubSeq(s, 1, Len(s) - 1))
    ELSE s

Trim(s) == TrimEnd(TrimStart(s))

\* s.includes(sub): a case-sensitive search for sub at every offset of s
Includes(s, sub) ==
    \E i \in 0..(Len(s) - Len(sub)) : SubSeq(s, i + 1, i + Len(sub)) = sub

----------------------------------------------------------------------------
\* JSON.stringify on strings, naturals, null and objects.  The strings of the
\* model hold no quote, backslash or control character, so none is escaped.

DigitChars == <<"0","1","2","3","4","5","6","7","8","9">>

RECURSIVE NatToChars(_)
NatToChars(n) ==
    IF n < 10
    THEN <<DigitChars[n + 1]>>
    ELSE NatToChars(n \div 10) \o <<DigitChars[(n % 10) + 1]>>

Quote(s) == <<"\"">> \o s \o <<"\"">>

RECURSIVE JSONstringify(_), StringifyMembers(_)
JSONstringify(v) ==
    CASE v.t = "string" -> Quote(v.s)
      [] v.t = "number" -> NatToChars(v.n)
      [] v.t = "null" -> <<"n","u","l","l">>
      [] v.t = "object" -> <<"{">> \o StringifyMembers(v.m) \o <<"}">>

StringifyMembers(m) ==
    IF m = <<>>
    THEN <<>>
    ELSE Quote(m[1].k) \o <<":">> \o JSONstringify(m[1].v)
         \o (IF Len(m) > 1 THEN <<",">> \o StringifyMembers(Tail(m)) ELSE <<>>)

----------------------------------------------------------------------------
\* JSON.parse (the body of resp.json()): a recursive-descent parser of the same
\* fragment, skipping insignificant whitespace.  A parse result is
\* [ok, v, rest]; ok = FALSE stands for the SyntaxError JSON.parse throws.

ParseFail == [ok |-> FALSE, v |-> Undefined, rest |-> <<>>]
Parsed(v, rest) == [ok |-> TRUE, v |-> v, rest |-> rest]

IsDigit(c) == \E d \in 1..10 : DigitChars[d] = c
DigitVal(c) == (CHOOSE d \in 1..10 : DigitChars[d] = c) - 1

RECURSIVE ParseDigits(_, _)
ParseDigits(s, acc) ==
    IF s # <<>> /\ IsDigit(Head(s))
    THEN ParseDigits(Tail(s), 10 * acc + DigitVal(Head(s)))
    ELSE Parsed(JNum(acc), s)

\* a JSON number of the fragment: "0", or digits that do not start with "0"
ParseNumber(s) ==
    IF Head(s) = "0" THEN Parsed(JNum(0), Tail(s)) ELSE ParseDigits(s, 0)

\* s starts with a quote: the string runs to the next quote
ParseStringLit(s) ==
    IF \E j \in 2..Len(s) : s[j] = "\""
    THEN LET j == CHOOSE j \in 2..Len(s) :
                      s[j] = "\"" /\ \A h \in 2..(j - 1) : s[h] # "\""
         IN Parsed(JStr(SubSeq(s, 2, j - 1)), SubSeq(s, j + 1, Len(s)))
    ELSE ParseFail

RECURSIVE ParseValue(_), ParseMembers(_, _)
ParseValue(s0) ==
    LET s == TrimStart(s0) IN
    IF s = <<>> THEN ParseFail
    ELSE IF Head(s) = "\"" THEN ParseStringLit(s)
    ELSE IF IsDigit(Head(s)) THEN ParseNumber(s)
    ELSE IF Len(s) >= 4 /\ SubSeq(s, 1, 4) = <<"n","u","l","l">>
         THEN Parsed(JNull, SubSeq(s, 5, Len(s)))
    ELSE IF Head(s) = "{"
         THEN LET r == TrimStart(Tail(s)) IN
              IF r # <<>> /\ Head(r) = "}"
              THEN Parsed(JObj(<<>>), Tail(r))
              ELSE ParseMembers(r, <<>>)
    ELSE ParseFail

\* s0 is where a member starts; acc holds the members read so far
ParseMembers(s0, acc) ==
    LET s == TrimStart(s0) IN
    IF s = <<>> \/ Head(s) # "\"" THEN ParseFail
    ELSE LET key == ParseStringLit(s) IN
         IF ~key.ok THEN ParseFail
         ELSE LET s1 == TrimStart(key.rest) IN
              IF s1 = <<>> \/ Head(s1) # ":" THEN ParseFail
              ELSE LET val == ParseValue(Tail(s1)) IN
                   IF ~val.ok THEN ParseFail
                   ELSE LET s2 == TrimStart(val.rest)
                            all == Append(acc, Member(key.v.s, val.v))
                        IN IF s2 = <<>> THEN ParseFail
                           ELSE IF Head(s2) = "," THEN ParseMembers(Tail(s2), all)
                           ELSE IF Head(s2) = "}" THEN Parsed(JObj(all), Tail(s2))
                           ELSE ParseFail

JSONparse(text) ==
    LET r == ParseValue(text) IN
    IF r.ok /\ TrimStart(r.rest) = <<>> THEN Parsed(r.v, <<>>) ELSE ParseFail

----------------------------------------------------------------------------
\* getBackendBaseUrl: reads process.env.REACT_APP_BACKEND_URL (the variable
\* env) each time it is evaluated and returns the characters of the base URL.

\* Defect: the blank test without trim(), so a whitespace-only value is returned.
getBackendBaseUrlNoTrim ==
    LET envUrl == env IN
    IF Truthy(envUrl) THEN envUrl.s ELSE FALLBACK

\* Defect: the base URL memoised by the first call and reused by later ones.
getBackendBaseUrlCached ==
    LET envUrl == env
        started == {j \in DOMAIN calls : calls[j].pc # "idle"}
    IN IF started # {}
       THEN calls[CHOOSE j \in started : TRUE].base
       ELSE IF Truthy(envUrl) /\ Len(Trim(envUrl.s)) > 0 THEN envUrl.s ELSE FALLBACK

getBackendBaseUrl ==
    LET envUrl == env IN
    IF Truthy(envUrl) /\ Len(Trim(envUrl.s)) > 0 THEN envUrl.s ELSE FALLBACK

----------------------------------------------------------------------------
\* Requests.  A headers object is a record of the two keys the client sets;
\* Undefined stands for a key that is not in the object.  A request is what
\* fetch is handed: url, method, headers and body (Undefined: no body).

NoHeaders == [ContentType |-> Undefined, Authorization |-> Undefined]

\* Defect: `if (token !== undefined)`, so a null or empty token is sent too.
authorizeDefined(headers, token) ==
    IF token.t # "undefined"
    THEN [headers EXCEPT !.Authorization = JStr(BEARER \o token.s)]
    ELSE headers

\* Defect: one headers object shared by all calls, so an Authorization entry
\* written by one call is still there when another call sends its request.
authorizeShared(headers, token) ==
    LET holders == {j \in DOMAIN calls :
                       calls[j].request.headers.Authorization # Undefined}
    IN IF Truthy(token)
       THEN [headers EXCEPT !.Authorization = JStr(BEARER \o token.s)]
       ELSE IF holders # {}
            THEN [headers EXCEPT !.Authorization =
                     calls[CHOOSE j \in holders : TRUE].request.headers.Authorization]
            ELSE headers

\* if (token) { headers["Authorization"] = `Bearer ${token}`; }
authorize(headers, token) ==
    IF Truthy(token)
    THEN [headers EXCEPT !.Authorization = JStr(BEARER \o token.s)]
    ELSE headers

apiPostRequest(base, path, body, token) ==
    LET headers == authorize([NoHeaders EXCEPT !.ContentType = JStr(APPLICATION_JSON)],
                             token)
    IN [url |-> base \o path,
        method |-> "POST",
        headers |-> headers,
        body |-> JStr(JSONstringify(IF Nullish(body) THEN JObj(<<>>) ELSE body))]

apiGetRequest(base, path, token) ==
    LET headers == authorize(NoHeaders, token)
    IN [url |-> base \o path,
        method |-> "GET",
        headers |-> headers,
        body |-> Undefined]

----------------------------------------------------------------------------
\* Responses.  A response is [status, contentType, text]: contentType is what
\* resp.headers.get("content-type") returns (JNull when the header is absent)
\* and text the characters of the body.

\* resp.ok, which the Fetch standard defines as a status in the range 200-299
RespOk(resp) == resp.status \in 200..299

\* const contentType = resp.headers.get("content-type") || "";
contentType(resp) ==
    IF Truthy(resp.contentType) THEN resp.contentType.s ELSE <<>>

\* Defect: `contentType === "application/json"` in place of includes().
decodeExact(resp) ==
    IF contentType(resp) = APPLICATION_JSON
    THEN JSONparse(resp.text)
    ELSE Parsed(JStr(resp.text), <<>>)

\* contentType.includes("application/json") ? resp.json() : resp.text()
decode(resp) ==
    IF Includes(contentType(resp), APPLICATION_JSON)
    THEN JSONparse(resp.text)
    ELSE Parsed(JStr(resp.text), <<>>)

\* Defect: the typeof test dropped, every detail serialised.
errorMessageStringify(detail) == JSONstringify(detail)

\* Defect: the message taken from the object's "detail" member when that
\* member is a string.
errorMessageDetail(detail) ==
    LET hits == {k \in 1..Len(detail.m) :
                    detail.m[k].k = <<"d","e","t","a","i","l">>
                    /\ detail.m[k].v.t = "string"}
    IN IF detail.t = "string" THEN detail.s
       ELSE IF hits # {} THEN detail.m[CHOOSE k \in hits : TRUE].v.s
       ELSE JSONstringify(detail)

\* typeof detail === "string" ? detail : JSON.stringify(detail)
errorMessage(detail) ==
    IF detail.t = "string" THEN detail.s ELSE JSONstringify(detail)

\* How a call's promise settles.  err names the error that was thrown; the
\* message of a SyntaxError or of fetch's TypeError is the engine's own and is
\* left as Undefined.
Pending == [st |-> "pending", err |-> "none", value |-> Undefined]
Resolved(v) == [st |-> "resolved", err |-> "none", value |-> v]
Rejected(err, message) == [st |-> "rejected", err |-> err, value |-> message]

\* Defect: an ok response is rejected when its decoded body is an object
\* that carries a "detail" member.
settleBodyError(resp) ==
    LET detail == decode(resp)
        flagged == detail.ok /\ detail.v.t = "object"
                   /\ \E k \in 1..Len(detail.v.m) :
                          detail.v.m[k].k = <<"d","e","t","a","i","l">>
    IN IF ~RespOk(resp) \/ flagged
       THEN IF detail.ok
            THEN Rejected("Error", JStr(errorMessage(detail.v)))
            ELSE Rejected("SyntaxError", Undefined)
       ELSE IF detail.ok
            THEN Resolved(detail.v)
            ELSE Rejected("SyntaxError", Undefined)

\* lines 28-33 of apiPost and the same lines 48-53 of apiGet
settle(resp) ==
    LET detail == decode(resp) IN
    IF ~RespOk(resp)
    THEN IF detail.ok
         THEN Rejected("Error", JStr(errorMessage(detail.v)))
         ELSE Rejected("SyntaxError", Undefined)
    ELSE IF detail.ok
         THEN Resolved(detail.v)
         ELSE Rejected("SyntaxError", Undefined)

----------------------------------------------------------------------------
\* State.  env is process.env.REACT_APP_BACKEND_URL.  calls[i] is one
\* invocation of apiGet or apiPost: its position pc (idle, then suspended in
\* "fetch", then suspended in the body read "body", then "done"), its
\* arguments, its local constant base, the request it handed to fetch, the
\* response fetch resolved with, and how its promise settled.  envAtStart (the
\* configuration value when the call started) and nfetch (how many times the
\* call invoked fetch) are history, read by no action.

NoRequest == [url |-> <<>>, method |-> "none", headers |-> NoHeaders, body |-> Undefined]
NoResp == [status |-> 0, contentType |-> JNull, text |-> <<>>]

Idle ==
    [pc |-> "idle", fn |-> "none", path |-> <<>>, body |-> Undefined,
     token |-> Undefined, envAtStart |-> Undefined, base |-> <<>>, nfetch |-> 0,
     request |-> NoRequest, resp |-> NoResp, outcome |-> Pending]

Calls == 1..MaxCalls

\* apiPost(path, body, token) runs to its `await fetch(...)`
apiPost(i, path, body, token) ==
    /\ calls[i].pc = "idle"
    /\ LET base == getBackendBaseUrl IN
       calls' = [calls EXCEPT ![i] =
                    [@ EXCEPT !.pc = "fetch", !.fn = "apiPost", !.path = path,
                              !.body = body, !.token = token,
                              !.envAtStart = env, !.base = base,
                              !.nfetch = @ + 1,
                              !.request = apiPostRequest(base, path, body, token)]]
    /\ UNCHANGED env

\* apiGet(path, token) runs to its `await fetch(...)`
apiGet(i, path, token) ==
    /\ calls[i].pc = "idle"
    /\ LET base == getBackendBaseUrl IN
       calls' = [calls EXCEPT ![i] =
                    [@ EXCEPT !.pc = "fetch", !.fn = "apiGet", !.path = path,
                              !.token = token,
                              !.envAtStart = env, !.base = base,
                              !.nfetch = @ + 1,
                              !.request = apiGetRequest(base, path, token)]]
    /\ UNCHANGED env

\* fetch resolves with a response: the call goes on to read the body
FetchResolves(i, resp) ==
    /\ calls[i].pc = "fetch"
    /\ calls' = [calls EXCEPT ![i] = [@ EXCEPT !.pc = "body", !.resp = resp]]
    /\ UNCHANGED env

\* fetch rejects (no response at all): the await throws and the call rejects
FetchRejects(i) ==
    /\ calls[i].pc = "fetch"
    /\ calls' = [calls EXCEPT ![i] =
                    [@ EXCEPT !.pc = "done",
                              !.outcome = Rejected("TypeError", Undefined)]]
    /\ UNCHANGED env

\* the body read of apiPost completes: throw new Error(...) or return
apiPostReturn(i) ==
    /\ calls[i].pc = "body"
    /\ calls[i].fn = "apiPost"
    /\ calls' = [calls EXCEPT ![i] =
                    [@ EXCEPT !.pc = "done", !.outcome = settle(calls[i].resp)]]
    /\ UNCHANGED env

\* the body read of apiGet completes: throw new Error(...) or return
apiGetReturn(i) ==
    /\ calls[i].pc = "body"
    /\ calls[i].fn = "apiGet"
    /\ calls' = [calls EXCEPT ![i] =
                    [@ EXCEPT !.pc = "done", !.outcome = settle(calls[i].resp)]]
    /\ UNCHANGED env

\* the configuration value changes
SetEnv(v) ==
    /\ env # v
    /\ env' = v
    /\ UNCHANGED calls

----------------------------------------------------------------------------
\* Inputs.

URL_EXAMPLE == <<"h","t","t","p",":","/","/","e","x","a","m","p","l","e",".","c","o","m">>
URL_PADDED == <<" ","h","t","t","p",":","/","/","h"," ">>
PATH_X == <<"/","x">>
TOK123 == <<"t","o","k","1","2","3">>
TOK_B == <<"b">>

CT_JSON_CHARSET == <<"a","p","p","l","i","c","a","t","i","o","n","/","j","s","o","n",";"," ","c","h","a","r","s","e","t","=","u","t","f","-","8">>
CT_JSON_UPPER == <<"A","p","p","l","i","c","a","t","i","o","n","/","J","S","O","N",";"," ","c","h","a","r","s","e","t","=","u","t","f","-","8">>
CT_TEXT == <<"t","e","x","t","/","p","l","a","i","n">>

TXT_A1 == <<"{","\"","a","\"",":","1","}">>
TXT_HELLO == <<"h","e","l","l","o">>
TXT_DETAIL == <<"{","\"","d","e","t","a","i","l","\"",":","\"","b","a","d"," ","i","n","p","u","t","\"","}">>
TXT_CODE == <<"{","\"","c","o","d","e","\"",":","\"","E","1","\"","}">>
TXT_CODE_SP == <<"{"," ","\"","c","o","d","e","\"",":"," ","\"","E","1","\""," ","}">>
TXT_BARE == <<"\"","o","o","p","s","\"">>
TXT_BAD == <<"{","b","a","d">>
OOPS == <<"o","o","p","s">>

\* every string over EnvAlphabet of length at most n
EnvAlphabet == {" ", "\t", "a"}
StringsUpTo(n) == UNION {[1..k -> EnvAlphabet] : k \in 0..n}

EnvValues ==
    {Undefined, JStr(URL_EXAMPLE), JStr(URL_PADDED)}
        \cup {JStr(s) : s \in StringsUpTo(MaxEnvLen)}

Paths == {PATH_X}
Bodies == {Undefined, JNull, JObj(<<>>), JObj(<<Member(<<"a">>, JNum(1))>>)}
Tokens == {Undefined, JNull, JStr(<<>>), JStr(TOK123)}

Statuses == {200, 299, 300, 399, 400, 500}
ContentTypes ==
    {JNull, JStr(APPLICATION_JSON), JStr(CT_JSON_CHARSET), JStr(CT_JSON_UPPER),
     JStr(CT_TEXT)}
Texts == {TXT_A1, TXT_HELLO, TXT_DETAIL, TXT_CODE, TXT_CODE_SP, TXT_BARE, TXT_BAD}
Responses == [status : Statuses, contentType : ContentTypes, text : Texts]

\* the smaller inputs of the concurrent specification
ConcEnvValues == {JStr(<<>>), JStr(URL_EXAMPLE)}
ConcPaths == {PATH_X}
ConcBodies == {Undefined}
ConcTokens == {Undefined, JStr(TOK_B)}
ConcResponses ==
    {[status |-> 200, contentType |-> JStr(APPLICATION_JSON), text |-> TXT_A1],
     [status |-> 400, contentType |-> JStr(CT_TEXT), text |-> TXT_HELLO]}

----------------------------------------------------------------------------
\* Spec: one call, from every configuration value, with every argument and
\* every response of the input sets.

Init ==
    /\ env \in EnvValues
    /\ calls = [i \in Calls |-> Idle]

Next ==
    \/ \E path \in Paths, body \in Bodies, token \in Tokens :
           apiPost(1, path, body, token)
    \/ \E path \in Paths, token \in Tokens : apiGet(1, path, token)
    \/ \E resp \in Responses : FetchResolves(1, resp)
    \/ FetchRejects(1)
    \/ apiPostReturn(1)
    \/ apiGetReturn(1)

Spec == Init /\ [][Next]_vars

\* SpecConc: MaxCalls calls in flight together, their steps interleaved in
\* any order, the configuration changing at any time.

InitConc ==
    /\ env \in ConcEnvValues
    /\ calls = [i \in Calls |-> Idle]

NextConc ==
    \/ \E i \in Calls, path \in ConcPaths, body \in ConcBodies, token \in ConcTokens :
           apiPost(i, path, body, token)
    \/ \E i \in Calls, path \in ConcPaths, token \in ConcTokens :
           apiGet(i, path, token)
    \/ \E i \in Calls, resp \in ConcResponses : FetchResolves(i, resp)
    \/ \E i \in Calls : FetchRejects(i)
    \/ \E i \in Calls : apiPostReturn(i)
    \/ \E i \in Calls : apiGetReturn(i)
    \/ \E v \in ConcEnvValues : SetEnv(v)

SpecConc == InitConc /\ [][NextConc]_vars

----------------------------------------------------------------------------
\* Properties.  The definitions below restate what is expected of the client
\* without using the definitions that model it.

Started(i) == calls[i].pc # "idle"
\* call i is done and fetch gave it a response
Answered(i) == calls[i].pc = "done" /\ calls[i].outcome.err # "TypeError"

\* absent, empty or whitespace only
IsBlank(v) ==
    v.t = "undefined" \/ (v.t = "string" /\ \A k \in 1..Len(v.s) : IsWhitespace(v.s[k]))
ExpectedBase(v) == IF IsBlank(v) THEN FALLBACK ELSE v.s

DETAIL == <<"d","e","t","a","i","l">>
BEARER_TOK123 == <<"B","e","a","r","e","r"," ","t","o","k","1","2","3">>
EMPTY_OBJECT == <<"{","}">>

StatusOk(resp) == 200 <= resp.status /\ resp.status <= 299
HeaderHasJson(resp) ==
    resp.contentType.t = "string" /\ Includes(resp.contentType.s, APPLICATION_JSON)
\* the body under the content-type rule: [ok, v, rest]
Decoded(resp) ==
    IF HeaderHasJson(resp) THEN JSONparse(resp.text) ELSE Parsed(JStr(resp.text), <<>>)
MessageOf(v) == IF v.t = "string" THEN v.s ELSE JSONstringify(v)
HasStringDetail(v) ==
    v.t = "object" /\ \E k \in 1..Len(v.m) : v.m[k].k = DETAIL /\ v.m[k].v.t = "string"
StringDetail(v) ==
    v.m[CHOOSE k \in 1..Len(v.m) : v.m[k].k = DETAIL /\ v.m[k].v.t = "string"].v.s

C2_DetailMessage ==
    \A i \in Calls :
        (/\ Answered(i)
         /\ calls[i].fn = "apiPost"
         /\ calls[i].resp.status >= 400
         /\ HeaderHasJson(calls[i].resp)
         /\ JSONparse(calls[i].resp.text).ok
         /\ HasStringDetail(JSONparse(calls[i].resp.text).v))
        => calls[i].outcome =
               Rejected("Error", JStr(StringDetail(JSONparse(calls[i].resp.text).v)))

\* C2 amended: such a response rejects apiPost with the JSON serialization of
\* the whole decoded object as message ('{"detail":"bad input"}' for the body
\* {"detail":"bad input"}), which is not the detail string.
C2_SerializedObject ==
    \A i \in Calls :
        (/\ Answered(i)
         /\ calls[i].fn = "apiPost"
         /\ ~StatusOk(calls[i].resp)
         /\ HeaderHasJson(calls[i].resp)
         /\ JSONparse(calls[i].resp.text).ok
         /\ HasStringDetail(JSONparse(calls[i].resp.text).v))
        => LET v == JSONparse(calls[i].resp.text).v IN
           /\ calls[i].outcome = Rejected("Error", JStr(JSONstringify(v)))
           /\ calls[i].outcome.value.s # StringDetail(v)
           /\ calls[i].resp.text = TXT_DETAIL => calls[i].outcome.value.s = TXT_DETAIL

\* apiPost got status 400 with the JSON body {"detail":"bad input"} and rejected
C2_Witness ==
    \E i \in Calls :
        /\ Answered(i)
        /\ calls[i].fn = "apiPost"
        /\ calls[i].resp = [status |-> 400, contentType |-> JStr(APPLICATION_JSON),
                            text |-> TXT_DETAIL]
        /\ calls[i].outcome = Rejected("Error", JStr(TXT_DETAIL))

\* C3: a failing response always rejects the call; when its body decodes under
\* the content-type rule, the message is the decoded body if that is a string
\* and its JSON serialization otherwise.
C3_FailureMessage ==
    \A i \in Calls :
        (Answered(i) /\ ~StatusOk(calls[i].resp))
        => LET r == calls[i].resp
               d == Decoded(r)
           IN /\ calls[i].outcome.st = "rejected"
              /\ d.ok => calls[i].outcome = Rejected("Error", JStr(MessageOf(d.v)))
              /\ ~HeaderHasJson(r) => calls[i].outcome.value = JStr(r.text)
              /\ (HeaderHasJson(r) /\ r.text \in {TXT_CODE, TXT_CODE_SP})
                     => calls[i].outcome.value = JStr(TXT_CODE)
              /\ (HeaderHasJson(r) /\ r.text = TXT_BARE)
                     => calls[i].outcome.value = JStr(OOPS)

\* apiGet got status 500 with the JSON body { "code": "E1" } and rejected with
\* the serialization {"code":"E1"}
C3_Witness ==
    \E i \in Calls :
        /\ Answered(i)
        /\ calls[i].fn = "apiGet"
        /\ calls[i].resp = [status |-> 500, contentType |-> JStr(APPLICATION_JSON),
                            text |-> TXT_CODE_SP]
        /\ calls[i].outcome = Rejected("Error", JStr(TXT_CODE))

\* C4: an ok response resolves to the JSON-parsed body when the content-type
\* header contains "application/json" (and the body parses), and to the raw
\* text otherwise, a missing header included.
C4_SuccessDecoding ==
    \A i \in Calls :
        (Answered(i) /\ StatusOk(calls[i].resp))
        => LET r == calls[i].resp IN
           /\ (HeaderHasJson(r) /\ JSONparse(r.text).ok)
                  => calls[i].outcome = Resolved(JSONparse(r.text).v)
           /\ ~HeaderHasJson(r) => calls[i].outcome = Resolved(JStr(r.text))
           /\ r.contentType = JNull => calls[i].outcome = Resolved(JStr(r.text))
           /\ (HeaderHasJson(r) /\ r.text = TXT_A1)
                  => calls[i].outcome = Resolved(JObj(<<Member(<<"a">>, JNum(1))>>))

\* an ok response with the header "application/json; charset=utf-8" resolved
\* to the parsed object
C4_Witness ==
    \E i \in Calls :
        /\ Answered(i)
        /\ calls[i].resp = [status |-> 200, contentType |-> JStr(CT_JSON_CHARSET),
                            text |-> TXT_A1]
        /\ calls[i].outcome = Resolved(JObj(<<Member(<<"a">>, JNum(1))>>))

\* C5: the request carries Authorization iff the token is truthy, with value
\* "Bearer " + token; apiPost sends POST, Content-Type application/json and the
\* serialized body ("{}" for an absent or null body); apiGet sends GET, no
\* body and no Content-Type.
C5_RequestConstruction ==
    \A i \in Calls :
        Started(i) =>
            LET c == calls[i]
                q == calls[i].request
                provided == c.token.t = "string" /\ c.token.s # <<>>
            IN /\ provided => q.headers.Authorization = JStr(BEARER \o c.token.s)
               /\ ~provided => q.headers.Authorization = Undefined
               /\ c.token = JStr(TOK123) => q.headers.Authorization = JStr(BEARER_TOK123)
               /\ c.fn = "apiPost" =>
                      /\ q.method = "POST"
                      /\ q.headers.ContentType = JStr(APPLICATION_JSON)
                      /\ c.body \in {Undefined, JNull} => q.body = JStr(EMPTY_OBJECT)
                      /\ c.body \notin {Undefined, JNull}
                             => q.body = JStr(JSONstringify(c.body))
                      /\ c.body = JObj(<<Member(<<"a">>, JNum(1))>>)
                             => q.body = JStr(TXT_A1)
               /\ c.fn = "apiGet" =>
                      /\ q.method = "GET"
                      /\ q.body = Undefined
                      /\ q.headers.ContentType = Undefined

\* apiPost("/x", undefined, "tok123") has sent its request
C5_Witness ==
    \E i \in Calls :
        /\ Started(i)
        /\ calls[i].fn = "apiPost"
        /\ calls[i].body = Undefined
        /\ calls[i].token = JStr(TOK123)
        /\ calls[i].request.headers.Authorization = JStr(BEARER_TOK123)
        /\ calls[i].request.body = JStr(EMPTY_OBJECT)

\* C6 as stated: with REACT_APP_BACKEND_URL left empty the request goes to the
\* path on the page's own origin, no host prefixed.
C6_SameOrigin ==
    \A i \in Calls :
        (Started(i) /\ calls[i].envAtStart = JStr(<<>>))
        => calls[i].request.url = calls[i].path

\* C7 as stated: a content-type that contains "application/json" in any letter
\* case has the body decoded as JSON, on success and on failure.
UpperLetters == <<"A","B","C","D","E","F","G","H","I","J","K","L","M","N","O","P","Q","R","S","T","U","V","W","X","Y","Z">>
LowerLetters == <<"a","b","c","d","e","f","g","h","i","j","k","l","m","n","o","p","q","r","s","t","u","v","w","x","y","z">>
LowerChar(c) ==
    IF \E k \in 1..Len(UpperLetters) : UpperLetters[k] = c
    THEN LowerLetters[CHOOSE k \in 1..Len(UpperLetters) : UpperLetters[k] = c]
    ELSE c
ToLower(s) == [k \in 1..Len(s) |-> LowerChar(s[k])]

C7_CaseInsensitive ==
    \A i \in Calls :
        (/\ Answered(i)
         /\ calls[i].resp.contentType.t = "string"
         /\ Includes(ToLower(calls[i].resp.contentType.s), APPLICATION_JSON)
         /\ JSONparse(calls[i].resp.text).ok)
        => LET v == JSONparse(calls[i].resp.text).v IN
           calls[i].outcome =
               IF StatusOk(calls[i].resp)
               THEN Resolved(v)
               ELSE Rejected("Error", JStr(MessageOf(v)))

\* C8 as stated: a call whose body decodes resolves iff the status is in
\* 200-399.
C8_Resolves200To399 ==
    \A i \in Calls :
        (Answered(i) /\ Decoded(calls[i].resp).ok)
        => (calls[i].outcome.st = "resolved"
                <=> (200 <= calls[i].resp.status /\ calls[i].resp.status <= 399))

\* C8 amended: a call resolves iff the response is ok, that is its status is
\* in 200-299, and its body decodes; the decoded body plays no part, so an ok
\* response whose body carries a detail field resolves with that body, and a
\* 3xx response rejects.
C8_ResolvesIffOk ==
    \A i \in Calls :
        Answered(i)
        => LET r == calls[i].resp IN
           /\ calls[i].outcome.st \in {"resolved", "rejected"}
           /\ calls[i].outcome.st = "resolved" <=> (StatusOk(r) /\ Decoded(r).ok)
           /\ (StatusOk(r) /\ Decoded(r).ok) => calls[i].outcome.value = Decoded(r).v
           /\ (300 <= r.status /\ r.status <= 399) => calls[i].outcome.st = "rejected"

\* an ok response whose JSON body carries a detail field resolved with it
C8_Witness ==
    \E i \in Calls :
        /\ Answered(i)
        /\ calls[i].resp = [status |-> 200, contentType |-> JStr(APPLICATION_JSON),
                            text |-> TXT_DETAIL]
        /\ calls[i].outcome.st = "resolved"
        /\ HasStringDetail(calls[i].outcome.value)

\* C9: a call that starts sends its request to (base URL of the configuration
\* value current at that step) + path, and nothing that happens afterwards, a
\* configuration change included, alters the request of a call already started.
C9_NoCache ==
    [][\A i \in Calls :
           /\ (~Started(i) /\ calls'[i].pc # "idle")
                  => /\ calls'[i].request.url = ExpectedBase(env) \o calls'[i].path
                     /\ calls'[i].envAtStart = env
           /\ Started(i) => calls'[i].request = calls[i].request]_vars

\* the configuration changed while a call was suspended in fetch, and a later
\* call went to the new base URL while the earlier request kept the old one
C9_Witness ==
    \E i, j \in Calls :
        /\ calls[i].pc = "fetch"
        /\ Started(j)
        /\ calls[i].envAtStart = JStr(<<>>)
        /\ calls[j].envAtStart = JStr(URL_EXAMPLE)
        /\ env = JStr(URL_EXAMPLE)
        /\ calls[i].request.url = FALLBACK \o calls[i].path
        /\ calls[j].request.url = URL_EXAMPLE \o calls[j].path

\* C10: every call invokes fetch exactly once, with a request built from its
\* own arguments alone, and settles as its own response dictates, whatever the
\* other calls do and in whatever order the responses arrive.
ExpectedRequest(c) ==
    [url |-> ExpectedBase(c.envAtStart) \o c.path,
     method |-> IF c.fn = "apiPost" THEN "POST" ELSE "GET",
     headers |->
         [ContentType |-> IF c.fn = "apiPost" THEN JStr(APPLICATION_JSON) ELSE Undefined,
          Authorization |-> IF c.token.t = "string" /\ c.token.s # <<>>
                            THEN JStr(BEARER \o c.token.s)
                            ELSE Undefined],
     body |-> IF c.fn = "apiGet" THEN Undefined
              ELSE IF c.body \in {Undefined, JNull} THEN JStr(EMPTY_OBJECT)
              ELSE JStr(JSONstringify(c.body))]
ExpectedOutcome(r) ==
    IF ~Decoded(r).ok THEN Rejected("SyntaxError", Undefined)
    ELSE IF StatusOk(r) THEN Resolved(Decoded(r).v)
    ELSE Rejected("Error", JStr(MessageOf(Decoded(r).v)))

C10_Independent ==
    /\ \A i \in Calls :
           /\ ~Started(i) => calls[i].nfetch = 0
           /\ Started(i) =>
                  /\ calls[i].nfetch = 1
                  /\ calls[i].request = ExpectedRequest(calls[i])
           /\ calls[i].pc \in {"idle", "fetch", "body"} => calls[i].outcome = Pending
           /\ Answered(i) => calls[i].outcome = ExpectedOutcome(calls[i].resp)
    /\ \A i, j \in Calls :
           (Answered(i) /\ Answered(j) /\ calls[i].resp = calls[j].resp)
           => calls[i].outcome = calls[j].outcome

\* one call is still suspended in fetch while another, made with different
\* arguments, has already settled on its own response
C10_Witness ==
    \E i, j \in Calls :
        /\ i < j
        /\ calls[i].token # calls[j].token
        /\ calls[i].fn # calls[j].fn
        /\ Answered(j)
        /\ calls[i].pc = "fetch"
        /\ calls[j].outcome.st = "rejected"
        /\ calls[i].request.headers # calls[j].request.headers

====
